---- MODULE Spec2Model ----
(***************************************************************************)
(* docker-exporter: one scrape of collector.Collector.Collect, with the    *)
(* docker.Client calls it makes, as a state machine.                       *)
(*                                                                         *)
(* The orchestrator (the goroutine that runs Collect) is at pc; the stat   *)
(* fetch goroutines are task[i], one slot per listed container; the        *)
(* helper goroutine that closes statsChan is closer.  The runtime (the     *)
(* Docker daemon) is the environment: every call to it either fails or     *)
(* returns a well-typed response, and fails once the scrape's context      *)
(* deadline has elapsed.                                                   *)
(***************************************************************************)
EXTENDS Integers, Sequences, FiniteSets, TLC

\* ---------------------------------------------------------------- bounds
MaxContainers == 2      \* longest enumeration the runtime returns
MaxElapsed == 1         \* clock readings after the scrape's start: start + 0..MaxElapsed

\* ------------------------------------------------------ program constants
IDLen == 12             \* inspect.ID[:12], containerID[:12]

\* ------------------------------------------------------------ identifiers
\* A full container identifier is a sequence of characters longer than
\* IDLen; MkID(p, q) has p as its first and q as its last character.
MkID(p, q) == <<p>> \o [i \in 1..(IDLen - 1) |-> 0] \o <<q>>

\* The identifiers the runtime may hand out.  The first two differ only
\* after their first IDLen characters.
RuntimeIDs == {MkID(1, 1), MkID(1, 2), MkID(2, 1)}

\* s[:12]
Truncate(s) == SubSeq(s, 1, IDLen)

\* strings.TrimPrefix(s, p) for a one-character prefix p
TrimPrefix(s, p) == IF Len(s) >= 1 /\ s[1] = p THEN Tail(s) ELSE s

\* The name the runtime reports for a container: "/" and a name that is
\* unique per container.
RuntimeName(id) == <<"/", id[1], id[Len(id)]>>

\* The numbers of the runtime's stats response for a container, as one code.
RuntimeCounters(id) == 10 * id[1] + id[Len(id)]

\* ------------------------------------------------- the runtime's responses
ZeroTime == 0           \* time.Time{}: IsZero() holds of it alone

\* A timestamp string of an inspect response: ok says whether it parses as
\* RFC3339Nano, t is the instant it parses to.  The runtime reports a
\* container that was never started as "0001-01-01T00:00:00Z", which
\* parses to the zero time.
TS(ok, t) == [ok |-> ok, t |-> t]

\* State.Health of an inspect response is a pointer: HealthNil stands for nil.
HealthNil == "<nil>"

\* The shapes of container the runtime reports (everything of an inspect
\* response but the identifier and the name).
Profiles ==
    { [Status |-> "running", Running |-> TRUE, ExitCode |-> 0, OOMKilled |-> FALSE,
       Created |-> TS(TRUE, 5), StartedAt |-> TS(TRUE, 7), Health |-> "healthy",
       RestartCount |-> 0],
      [Status |-> "exited", Running |-> FALSE, ExitCode |-> 137, OOMKilled |-> TRUE,
       Created |-> TS(TRUE, 5), StartedAt |-> TS(TRUE, 7), Health |-> HealthNil,
       RestartCount |-> 2],
      [Status |-> "created", Running |-> FALSE, ExitCode |-> 0, OOMKilled |-> FALSE,
       Created |-> TS(TRUE, 5), StartedAt |-> TS(TRUE, ZeroTime), Health |-> HealthNil,
       RestartCount |-> 0],
      [Status |-> "running", Running |-> TRUE, ExitCode |-> 0, OOMKilled |-> FALSE,
       Created |-> TS(FALSE, 0), StartedAt |-> TS(FALSE, 0), Health |-> "unhealthy",
       RestartCount |-> 1] }

\* The inspect response of the container id when it is of shape p.
InspectResponse(id, p) ==
    [ID |-> id, Name |-> RuntimeName(id), Image |-> "img", Created |-> p.Created,
     RestartCount |-> p.RestartCount, State |-> p]

\* The inspect responses the runtime may give for the container id.
InspectResponses(id) == { InspectResponse(id, p) : p \in Profiles }

\* The network interfaces the runtime reports for a container: some
\* containers have none (network mode none), the others one.
RuntimeInterfaces(id) == IF id[Len(id)] = 1 THEN {"eth0"} ELSE {}

\* The containers the runtime resolves the identifier (or prefix) cid to.
Resolve(cid) == { x \in RuntimeIDs : Len(x) >= Len(cid) /\ SubSeq(x, 1, Len(cid)) = cid }

\* The stats responses the runtime may give to a request for cid: the
\* counters and the interfaces of a container that cid resolves to.
StatsResponses(cid) ==
    { [Counters |-> RuntimeCounters(t), Networks |-> RuntimeInterfaces(t)] : t \in Resolve(cid) }

\* ------------------------------------------------------ docker.Client
\* time.Parse(time.RFC3339Nano, s): the instant, or the zero time that the
\* field keeps when parsing fails.
ParseTime(ts) == IF ts.ok THEN ts.t ELSE ZeroTime

\* InspectContainer: the ContainerInfo built from an inspect response.
InspectContainer(resp) ==
    [ ID |-> Truncate(resp.ID),
      Name |-> TrimPrefix(resp.Name, "/"),
      Image |-> resp.Image,
      State |-> resp.State.Status,
      RestartCount |-> resp.RestartCount,
      ExitCode |-> resp.State.ExitCode,
      OOMKilled |-> resp.State.OOMKilled,
      Running |-> resp.State.Running,
      Created |-> ParseTime(resp.Created),
      Started |-> ParseTime(resp.State.StartedAt),
      Health |-> IF resp.State.Health # HealthNil THEN resp.State.Health ELSE "none" ]

\* GetContainerStats: the ContainerStats built from a stats response.
GetContainerStats(containerID, name, resp) ==
    [ ID |-> Truncate(containerID),
      Name |-> name,
      Counters |-> resp.Counters,
      Networks |-> resp.Networks ]

\* ------------------------------------------------------ collector: metrics
\* prometheus.MustNewConstMetric(desc, kind, value, labels...)
Metric(desc, labels, value) == [desc |-> desc, labels |-> labels, value |-> value]

\* A stateToCode that does not tell the spellings of a state apart.
stateToCodeAnyCase(state) ==
    CASE state \in {"running", "Running", "RUNNING"} -> 1
      [] state \in {"paused", "Paused", "PAUSED"} -> 2
      [] state \in {"restarting", "Restarting", "RESTARTING"} -> 3
      [] state \in {"exited", "Exited", "EXITED"} -> 4
      [] state \in {"dead", "Dead", "DEAD"} -> 5
      [] state \in {"created", "Created", "CREATED"} -> 6
      [] OTHER -> 0

\* stateToCode
stateToCode(state) ==
    CASE state = "running" -> 1
      [] state = "paused" -> 2
      [] state = "restarting" -> 3
      [] state = "exited" -> 4
      [] state = "dead" -> 5
      [] state = "created" -> 6
      [] OTHER -> 0

\* A healthToCode whose default is the code of unhealthy.
healthToCodeDefaultZero(health) ==
    CASE health = "healthy" -> 1
      [] health = "starting" -> 2
      [] OTHER -> 0

\* healthToCode
healthToCode(health) ==
    CASE health = "healthy" -> 1
      [] health = "unhealthy" -> 0
      [] health = "starting" -> 2
      [] OTHER -> -1

\* t.IsZero()
IsZero(t) == t = ZeroTime

\* The elements of a finite set in some order (the order of a Go map range).
RECURSIVE SetToSeq(_)
SetToSeq(S) == IF S = {} THEN <<>>
               ELSE LET x == CHOOSE y \in S : TRUE IN <<x>> \o SetToSeq(S \ {x})

\* The concatenation of the sequences of a sequence.
RECURSIVE Flatten(_)
Flatten(ss) == IF ss = <<>> THEN <<>> ELSE Head(ss) \o Flatten(Tail(ss))

\* The build-info gauge Collect emits first.
BuildInfoMetric == Metric("build_info", <<"version", "goversion">>, 1)

\* The scrape-duration gauge Collect emits last.
ScrapeDurationMetric(duration) == Metric("scrape_duration_seconds", <<>>, duration)

\* The per-interface network counters of a sample.
NetworkMetrics(cont, stats) ==
    Flatten([k \in 1..Cardinality(stats.Networks) |->
        LET iface == SetToSeq(stats.Networks)[k] IN
        << Metric("container_network_rx_bytes_total", <<cont.ID, cont.Name, iface>>, stats.Counters),
           Metric("container_network_tx_bytes_total", <<cont.ID, cont.Name, iface>>, stats.Counters) >>])

\* The resource metrics of a container for which statsMap holds a sample.
ResourceMetrics(cont, stats) ==
    << Metric("container_cpu_usage_percent", <<cont.ID, cont.Name>>, stats.Counters),
       Metric("container_cpu_usage_seconds_total", <<cont.ID, cont.Name>>, stats.Counters),
       Metric("container_memory_usage_bytes", <<cont.ID, cont.Name>>, stats.Counters),
       Metric("container_memory_limit_bytes", <<cont.ID, cont.Name>>, stats.Counters),
       Metric("container_memory_usage_percent", <<cont.ID, cont.Name>>, stats.Counters) >>
    \o NetworkMetrics(cont, stats)
    \o << Metric("container_blkio_read_bytes_total", <<cont.ID, cont.Name>>, stats.Counters),
          Metric("container_blkio_write_bytes_total", <<cont.ID, cont.Name>>, stats.Counters) >>

\* A created timestamp sample for every container.
EmitsCreatedAlways(cont) == TRUE

\* Whether the created timestamp sample of a container is emitted.
EmitsCreated(cont) == ~IsZero(cont.Created)

\* Whether the started timestamp sample of a container is emitted.
EmitsStarted(cont) == ~IsZero(cont.Started)

\* Whether the resource metrics of a container are emitted.
HasStats(cont, sm) == cont.ID \in DOMAIN sm

\* The uptime of a container at the instant now (time.Since(cont.Started)).
Uptime(cont, now) == IF cont.Running /\ ~IsZero(cont.Started) THEN now - cont.Started ELSE 0

\* One turn of the emission loop: the samples of one container, read at
\* the instant now, with the samples sm that were collected.
ContainerMetrics(cont, sm, now) ==
    << Metric("container_info", <<cont.ID, cont.Name, cont.Image, cont.State>>, 1),
       Metric("container_state", <<cont.ID, cont.Name>>, stateToCode(cont.State)),
       Metric("container_uptime_seconds", <<cont.ID, cont.Name>>, Uptime(cont, now)) >>
    \o (IF EmitsCreated(cont)
        THEN <<Metric("container_created_seconds", <<cont.ID, cont.Name>>, cont.Created)>>
        ELSE <<>>)
    \o (IF EmitsStarted(cont)
        THEN <<Metric("container_started_seconds", <<cont.ID, cont.Name>>, cont.Started)>>
        ELSE <<>>)
    \o << Metric("container_restart_count", <<cont.ID, cont.Name>>, cont.RestartCount),
          Metric("container_health_status", <<cont.ID, cont.Name>>, healthToCode(cont.Health)),
          Metric("container_exit_code", <<cont.ID, cont.Name>>, cont.ExitCode),
          Metric("container_oom_killed", <<cont.ID, cont.Name>>, IF cont.OOMKilled THEN 1 ELSE 0) >>
    \o (IF HasStats(cont, sm) THEN ResourceMetrics(cont, sm[cont.ID]) ELSE <<>>)

\* Engine metrics without the images-total gauge.
EngineMetricsNoImages ==
    << Metric("engine_info", <<"version", "os", "arch", "kernel">>, 1),
       Metric("containers_total", <<"running">>, 1),
       Metric("containers_total", <<"paused">>, 0),
       Metric("containers_total", <<"stopped">>, 1) >>

\* The engine metrics collectEngineMetrics emits when GetEngineInfo succeeds.
EngineMetrics ==
    << Metric("engine_info", <<"version", "os", "arch", "kernel">>, 1),
       Metric("containers_total", <<"running">>, 1),
       Metric("containers_total", <<"paused">>, 0),
       Metric("containers_total", <<"stopped">>, 1),
       Metric("images_total", <<>>, 3) >>

\* ------------------------------------------------------------------ state
VARIABLES
    pc,          \* where the goroutine running Collect is
    start,       \* Collect: start := time.Now()
    clk,         \* the latest clock reading of the scrape, as time since start
    expired,     \* whether the deadline of the scrape's ctx has elapsed
    enum,        \* ListContainers: what ContainerList returned
    idx,         \* ListContainers: the position of the inspect loop in enum
    containers,  \* ListContainers: result; collectContainerMetrics: containers
    listErr,     \* whether ListContainers returned an error
    sp,          \* the position of the loop that starts the fetch goroutines
    task,        \* per listed container, its fetch goroutine
    fetches,     \* per listed container, how many fetch goroutines were started for it
    wg,          \* the counter of the sync.WaitGroup
    closer,      \* whether the goroutine that closes statsChan has been started
    statsChan,   \* the buffered channel, capacity len(containers)
    closed,      \* whether statsChan is closed
    statsMap,    \* the samples collected from statsChan, by stats.ID
    ch,          \* the metrics sent to the registry in this scrape
    engine,      \* the outcome of GetEngineInfo in this scrape
    panicked,    \* whether a goroutine panicked (the process is gone)
    fn,          \* a function applied on its own: which one
    arg,         \* a function applied on its own: its input
    out,         \* a function applied on its own: its result
    mainpc,      \* where main is
    cfg,         \* main: cfg, what config.Parse returned
    startup,     \* main: how NewClient and the startup Ping ended
    registered,  \* the collectors registered with the default registry
    health,      \* the /health handler: its request in progress or last answered
    peer         \* a second Collect call running at the same time: its locals

vars == <<pc, start, clk, expired, enum, idx, containers, listErr, sp, task, fetches,
          wg, closer, statsChan, closed, statsMap, ch, engine, panicked, fn, arg, out,
          mainpc, cfg, startup, registered, health, peer>>

\* The variables of a scrape, and those of a function applied on its own.
scrapeVars == <<pc, start, clk, expired, enum, idx, containers, listErr, sp, task, fetches,
                wg, closer, statsChan, closed, statsMap, ch, engine, panicked>>
fnVars == <<fn, arg, out>>

\* The variables of main and of the /health handler.
mainVars == <<mainpc, cfg, startup, registered, health>>

\* cfg before config.Parse has returned.
NoCfg == [OutputMode |-> "", Timeout |-> 0, Prefix |-> ""]

\* The collectors that the default registry holds when main begins (the
\* Go runtime collector and the process collector).
DefaultCollectors == {"go", "process"}

\* The /health handler before its first request.
NoHealth == [st |-> "idle", pings |-> 0, timeout |-> 0, ping |-> "none", code |-> 0, body |-> ""]

\* The instants at which a scrape may start.
StartInstants == {8}

\* A fetch goroutine that does not exist.
NoTask == [st |-> "none", stats |-> <<>>, late |-> FALSE]

\* The empty statsMap.
EmptyMap == [k \in {} |-> NoTask]

\* A second Collect call that has not begun, against no runtime yet.
NoPeer ==
    [pc |-> "idle", start |-> 0, clk |-> 0, expired |-> FALSE, enum |-> <<>>, idx |-> 0,
     containers |-> <<>>, listErr |-> FALSE, sp |-> 0, task |-> <<>>, fetches |-> <<>>,
     wg |-> 0, closer |-> FALSE, statsChan |-> <<>>, closed |-> FALSE,
     statsMap |-> EmptyMap, ch |-> <<>>, engine |-> "none", world |-> <<>>]

\* The locals of a scrape that has not reached them yet.
FreshLocals ==
    /\ enum = <<>> /\ idx = 0 /\ containers = <<>> /\ listErr = FALSE /\ sp = 0
    /\ task = <<>> /\ fetches = <<>> /\ wg = 0 /\ closer = FALSE /\ statsChan = <<>> /\ closed = FALSE
    /\ statsMap = EmptyMap /\ engine = "none"

Init ==
    /\ pc = "idle" /\ start = 0 /\ clk = 0 /\ expired = FALSE
    /\ FreshLocals /\ ch = <<>> /\ panicked = FALSE
    /\ fn = "none" /\ arg = <<>> /\ out = <<>>
    /\ mainpc = "parse" /\ cfg = NoCfg
    /\ startup = [client |-> "none", ping |-> "none"]
    /\ registered = DefaultCollectors /\ health = NoHealth
    /\ peer = NoPeer

\* ------------------------------------------------- conditions of the code
\* A call that gets a deadline of its own, which has not elapsed.
CtxAliveFresh(exp) == TRUE

\* Whether a call bound to the scrape's ctx can still succeed.
CtxAlive(exp) == ~exp

\* collectContainerMetrics: if len(containers) == 0 { return }
NoContainers(conts) == Len(conts) = 0

\* A fetch goroutine for every listed container, running or not.
ShouldFetchAll(cont) == TRUE

\* collectContainerMetrics: if cont.Running { wg.Add(1); go ... }
ShouldFetch(cont) == cont.Running

\* A Wait that does not wait for the counter to reach zero.
WaitReturnsAtOnce(n) == TRUE

\* wg.Wait() returns
WaitReturns(n) == n = 0

\* A receive loop that ends as soon as nothing is buffered.
RangeEndsWhenEmpty(c, isClosed) == c = <<>>

\* for stats := range statsChan ends
RangeEnds(c, isClosed) == c = <<>> /\ isClosed

\* The sequences without repetition over S of length at most n.
SeqsNoRep(S, n) ==
    UNION { { q \in [1..k -> S] : \A i, j \in 1..k : q[i] = q[j] => i = j } : k \in 0..n }

\* Where collectContainerMetrics goes once ListContainers has returned the
\* result res without error.
AfterListing(res) ==
    IF NoContainers(res)
    THEN /\ pc' = "engine"
         /\ UNCHANGED <<sp, task, fetches>>
    ELSE /\ pc' = "spawn"
         /\ sp' = 1
         /\ task' = [i \in 1..Len(res) |-> NoTask]
         /\ fetches' = [i \in 1..Len(res) |-> 0]

\* Engine samples never, and engine samples whatever GetEngineInfo returned.
EngineSamplesNever(ok) == <<>>
EngineSamplesAlways(ok) == EngineMetrics

\* collectEngineMetrics: the engine samples, given whether GetEngineInfo
\* succeeded.
EngineSamples(ok) == IF ok THEN EngineMetrics ELSE <<>>

\* A Collect that returns without the scrape-duration gauge when the
\* engine lookup failed.
FinalSamplesUnlessFailed(ok, duration) ==
    IF ok THEN EngineMetrics \o <<ScrapeDurationMetric(duration)>> ELSE <<>>

\* Collect after collectContainerMetrics: the engine samples, then the
\* scrape-duration gauge.
FinalSamples(ok, duration) == EngineSamples(ok) \o <<ScrapeDurationMetric(duration)>>

\* statsMap[stats.ID] = stats
Store(sm, stats) ==
    [k \in DOMAIN sm \cup {stats.ID} |-> IF k = stats.ID THEN stats ELSE sm[k]]

\* -------------------------------------------------------------- actions
\* A Collect whose inventory is kept from one call to the next.
BeginScrapeKeepingSnapshots ==
    /\ pc \in {"idle", "done"} /\ ~panicked
    /\ start' \in StartInstants
    /\ clk' = 0
    /\ expired' = FALSE
    /\ enum' = <<>> /\ idx' = 0 /\ listErr' = FALSE /\ sp' = 0
    /\ task' = <<>> /\ fetches' = <<>> /\ wg' = 0 /\ closer' = FALSE
    /\ statsChan' = <<>> /\ closed' = FALSE /\ statsMap' = EmptyMap /\ engine' = "none"
    /\ ch' = <<BuildInfoMetric>>
    /\ pc' = "list"
    /\ UNCHANGED <<containers, panicked>>

\* Collect begins: the start instant, the context with its deadline, the
\* build-info gauge, and the call of collectContainerMetrics.  The locals
\* of the call are fresh.
BeginScrape ==
    /\ pc \in {"idle", "done"} /\ ~panicked
    /\ start' \in StartInstants
    /\ clk' = 0
    /\ expired' = FALSE
    /\ enum' = <<>> /\ idx' = 0 /\ containers' = <<>> /\ listErr' = FALSE /\ sp' = 0
    /\ task' = <<>> /\ fetches' = <<>> /\ wg' = 0 /\ closer' = FALSE
    /\ statsChan' = <<>> /\ closed' = FALSE /\ statsMap' = EmptyMap /\ engine' = "none"
    /\ ch' = <<BuildInfoMetric>>
    /\ pc' = "list"
    /\ UNCHANGED panicked

\* The registry calls Collect.
Begin ==
    /\ BeginScrape
    /\ UNCHANGED <<fnVars, mainVars, peer>>

\* The deadline of the scrape's context elapses.
DeadlineElapses ==
    /\ pc \notin {"idle", "done"} /\ ~panicked
    /\ ~expired
    /\ expired' = TRUE
    /\ UNCHANGED <<pc, start, clk, enum, idx, containers, listErr, sp, task, fetches,
                   wg, closer, statsChan, closed, statsMap, ch, engine, panicked>>
    /\ UNCHANGED <<fnVars, mainVars, peer>>

\* ListContainers: ContainerList returns, with an error (ListContainers
\* returns it, and collectContainerMetrics returns) or with an enumeration.
ContainerListOf(ids) ==
    /\ pc = "list" /\ ~panicked
    /\ \/ /\ listErr' = TRUE
          /\ pc' = "engine"
          /\ UNCHANGED <<enum, idx, sp, task, fetches>>
       \/ /\ CtxAlive(expired)
          /\ \E e \in SeqsNoRep(ids, MaxContainers) :
                /\ enum' = e
                /\ IF e = <<>>
                   THEN idx' = 0 /\ AfterListing(<<>>)
                   ELSE idx' = 1 /\ pc' = "inspect" /\ UNCHANGED <<sp, task, fetches>>
          /\ UNCHANGED listErr
    /\ UNCHANGED <<start, clk, expired, containers, wg, closer, statsChan,
                   closed, statsMap, ch, engine, panicked>>
    /\ UNCHANGED <<fnVars, mainVars, peer>>

\* ListContainers' call of ContainerList, answered by the runtime.
ContainerList == ContainerListOf(RuntimeIDs)

\* A ListContainers that returns the error of a failed inspect call.
InspectFailFast ==
    /\ pc = "inspect" /\ ~panicked
    /\ \/ /\ listErr' = TRUE
          /\ containers' = <<>>
          /\ idx' = 0
          /\ pc' = "engine"
          /\ UNCHANGED <<sp, task, fetches>>
       \/ /\ CtxAlive(expired)
          /\ \E r \in InspectResponses(enum[idx]) :
                /\ containers' = Append(containers, InspectContainer(r))
                /\ IF idx = Len(enum)
                   THEN idx' = 0 /\ AfterListing(containers')
                   ELSE idx' = idx + 1 /\ UNCHANGED <<pc, sp, task, fetches>>
          /\ UNCHANGED listErr
    /\ UNCHANGED <<start, clk, expired, enum, wg, closer, statsChan,
                   closed, statsMap, ch, engine, panicked>>
    /\ UNCHANGED <<fnVars, mainVars, peer>>

\* ListContainers: one turn of the inspect loop.  A container whose
\* inspect call fails is skipped; after the last turn ListContainers returns.
Inspect ==
    /\ pc = "inspect" /\ ~panicked
    /\ \E res \in {containers} \cup
                  (IF CtxAlive(expired)
                   THEN { Append(containers, InspectContainer(r)) : r \in InspectResponses(enum[idx]) }
                   ELSE {}) :
          /\ containers' = res
          /\ IF idx = Len(enum)
             THEN idx' = 0 /\ AfterListing(res)
             ELSE idx' = idx + 1 /\ UNCHANGED <<pc, sp, task, fetches>>
    /\ UNCHANGED <<start, clk, expired, enum, listErr, wg, closer, statsChan,
                   closed, statsMap, ch, engine, panicked>>
    /\ UNCHANGED <<fnVars, mainVars, peer>>

\* One turn of the loop that starts the fetch goroutines (the goroutine
\* starts with its call of GetContainerStats); after the last turn the
\* goroutine that closes statsChan is started.
Spawn ==
    /\ pc = "spawn" /\ ~panicked
    /\ IF ShouldFetch(containers[sp])
       THEN /\ wg' = wg + 1
            /\ task' = [task EXCEPT ![sp] = [NoTask EXCEPT !.st = "calling"]]
            /\ fetches' = [fetches EXCEPT ![sp] = @ + 1]
       ELSE UNCHANGED <<wg, task, fetches>>
    /\ IF sp = Len(containers)
       THEN sp' = 0 /\ closer' = TRUE /\ pc' = "drain"
       ELSE sp' = sp + 1 /\ UNCHANGED <<closer, pc>>
    /\ UNCHANGED <<start, clk, expired, enum, idx, containers, listErr,
                   statsChan, closed, statsMap, ch, engine, panicked>>
    /\ UNCHANGED <<fnVars, mainVars, peer>>

\* A fetch goroutine that calls GetContainerStats again when it failed.
StatsReturnRetrying(i) ==
    /\ ~panicked
    /\ i \in DOMAIN task /\ task[i].st = "calling"
    /\ \/ /\ fetches[i] < 2
          /\ fetches' = [fetches EXCEPT ![i] = @ + 1]
          /\ UNCHANGED <<task, wg>>
       \/ /\ task' = [task EXCEPT ![i] = [NoTask EXCEPT !.st = "failed"]]
          /\ wg' = wg - 1
          /\ UNCHANGED fetches
       \/ /\ CtxAlive(expired)
          /\ \E r \in StatsResponses(containers[i].ID) :
                task' = [task EXCEPT ![i] =
                    [st |-> "got", late |-> FALSE,
                     stats |-> <<GetContainerStats(containers[i].ID, containers[i].Name, r)>>]]
          /\ UNCHANGED <<wg, fetches>>
    /\ UNCHANGED <<pc, start, clk, expired, enum, idx, containers, listErr, sp,
                   closer, statsChan, closed, statsMap, ch, engine, panicked>>
    /\ UNCHANGED <<fnVars, mainVars, peer>>

\* A fetch goroutine that calls wg.Done only after it has posted a sample.
StatsReturnNoDone(i) ==
    /\ ~panicked
    /\ i \in DOMAIN task /\ task[i].st = "calling"
    /\ \/ /\ task' = [task EXCEPT ![i] = [NoTask EXCEPT !.st = "failed"]]
          /\ UNCHANGED wg
       \/ /\ CtxAlive(expired)
          /\ \E r \in StatsResponses(containers[i].ID) :
                task' = [task EXCEPT ![i] =
                    [st |-> "got", late |-> FALSE,
                     stats |-> <<GetContainerStats(containers[i].ID, containers[i].Name, r)>>]]
          /\ UNCHANGED wg
    /\ UNCHANGED <<pc, start, clk, expired, enum, idx, containers, listErr, sp, fetches,
                   closer, statsChan, closed, statsMap, ch, engine, panicked>>
    /\ UNCHANGED <<fnVars, mainVars, peer>>

\* A fetch goroutine: GetContainerStats returns, with an error (the
\* goroutine logs it and returns, which runs wg.Done) or with a sample.
StatsReturn(i) ==
    /\ ~panicked
    /\ i \in DOMAIN task /\ task[i].st = "calling"
    /\ \/ /\ task' = [task EXCEPT ![i] = [NoTask EXCEPT !.st = "failed"]]
          /\ wg' = wg - 1
       \/ /\ CtxAlive(expired)
          /\ \E r \in StatsResponses(containers[i].ID) :
                task' = [task EXCEPT ![i] =
                    [st |-> "got", late |-> FALSE,
                     stats |-> <<GetContainerStats(containers[i].ID, containers[i].Name, r)>>]]
          /\ UNCHANGED wg
    /\ UNCHANGED <<pc, start, clk, expired, enum, idx, containers, listErr, sp, fetches,
                   closer, statsChan, closed, statsMap, ch, engine, panicked>>
    /\ UNCHANGED <<fnVars, mainVars, peer>>

\* A statsChan made with room for one sample.
RoomForOne(c, conts) == Len(c) < 1

\* statsChan has room for one more sample: its capacity is len(containers).
Room(c, conts) == Len(c) < Len(conts)

\* A fetch goroutine that drops its sample when the deadline has elapsed.
PostUnlessExpired(i) ==
    /\ ~panicked
    /\ i \in DOMAIN task /\ task[i].st = "got"
    /\ IF expired
       THEN /\ task' = [task EXCEPT ![i].st = "posted", ![i].late = TRUE]
            /\ UNCHANGED <<statsChan, panicked>>
       ELSE /\ ~closed
            /\ Room(statsChan, containers)
            /\ statsChan' = Append(statsChan, task[i].stats[1])
            /\ task' = [task EXCEPT ![i].st = "posted"]
            /\ UNCHANGED panicked
    /\ UNCHANGED <<pc, start, clk, expired, enum, idx, containers, listErr, sp, fetches,
                   wg, closer, closed, statsMap, ch, engine>>
    /\ UNCHANGED <<fnVars, mainVars, peer>>

\* A fetch goroutine: statsChan <- stats.  A send on a closed channel
\* panics; a send on a full channel blocks.  late records whether the
\* deadline had elapsed when the sample was sent.
Post(i) ==
    /\ ~panicked
    /\ i \in DOMAIN task /\ task[i].st = "got"
    /\ IF closed
       THEN panicked' = TRUE /\ UNCHANGED <<task, statsChan>>
       ELSE /\ Room(statsChan, containers)
            /\ statsChan' = Append(statsChan, task[i].stats[1])
            /\ task' = [task EXCEPT ![i].st = "posted", ![i].late = expired]
            /\ UNCHANGED panicked
    /\ UNCHANGED <<pc, start, clk, expired, enum, idx, containers, listErr, sp, fetches,
                   wg, closer, closed, statsMap, ch, engine>>
    /\ UNCHANGED <<fnVars, mainVars, peer>>

\* A fetch goroutine returns after its send: the deferred wg.Done.
TaskExit(i) ==
    /\ ~panicked
    /\ i \in DOMAIN task /\ task[i].st = "posted"
    /\ task' = [task EXCEPT ![i].st = "done"]
    /\ wg' = wg - 1
    /\ UNCHANGED <<pc, start, clk, expired, enum, idx, containers, listErr, sp, fetches,
                   closer, statsChan, closed, statsMap, ch, engine, panicked>>
    /\ UNCHANGED <<fnVars, mainVars, peer>>

\* The closing goroutine: wg.Wait() returns and statsChan is closed.
CloseChan ==
    /\ ~panicked
    /\ closer /\ ~closed
    /\ WaitReturns(wg)
    /\ closed' = TRUE
    /\ UNCHANGED <<pc, start, clk, expired, enum, idx, containers, listErr, sp,
                   task, fetches, wg, closer, statsChan, statsMap, ch, engine, panicked>>
    /\ UNCHANGED <<fnVars, mainVars, peer>>

\* The orchestrator receives one sample from statsChan.
Receive ==
    /\ pc = "drain" /\ ~panicked
    /\ statsChan # <<>>
    /\ statsMap' = Store(statsMap, Head(statsChan))
    /\ statsChan' = Tail(statsChan)
    /\ UNCHANGED <<pc, start, clk, expired, enum, idx, containers, listErr, sp,
                   task, fetches, wg, closer, closed, ch, engine, panicked>>
    /\ UNCHANGED <<fnVars, mainVars, peer>>

\* The range over statsChan ends.
DrainEnd ==
    /\ pc = "drain" /\ ~panicked
    /\ RangeEnds(statsChan, closed)
    /\ pc' = "assemble"
    /\ UNCHANGED <<start, clk, expired, enum, idx, containers, listErr, sp,
                   task, fetches, wg, closer, statsChan, closed, statsMap, ch, engine,
                   panicked>>
    /\ UNCHANGED <<fnVars, mainVars, peer>>

\* The clock readings of the emission loop: one per container, none before
\* the reading before it.
Readings(n, from) ==
    { r \in [1..n -> from..MaxElapsed] : \A i, j \in 1..n : i <= j => r[i] <= r[j] }

\* The emission loop: the metrics of every listed container, in the order
\* of the inventory.
Assemble ==
    /\ pc = "assemble" /\ ~panicked
    /\ \E r \in Readings(Len(containers), clk) :
          /\ ch' = ch \o Flatten([i \in 1..Len(containers) |->
                                     ContainerMetrics(containers[i], statsMap, start + r[i])])
          /\ clk' = r[Len(containers)]
    /\ pc' = "engine"
    /\ UNCHANGED <<start, expired, enum, idx, containers, listErr, sp,
                   task, fetches, wg, closer, statsChan, closed, statsMap, engine,
                   panicked>>
    /\ UNCHANGED <<fnVars, mainVars, peer>>

\* collectEngineMetrics: GetEngineInfo returns; then the scrape-duration
\* gauge, and Collect returns.
EngineInfo ==
    /\ pc = "engine" /\ ~panicked
    /\ \E d \in clk..MaxElapsed :
          /\ clk' = d
          /\ \/ /\ engine' = "err"
                /\ ch' = ch \o FinalSamples(FALSE, d)
             \/ /\ CtxAlive(expired)
                /\ engine' = "ok"
                /\ ch' = ch \o FinalSamples(TRUE, d)
    /\ pc' = "done"
    /\ UNCHANGED <<start, expired, enum, idx, containers, listErr, sp,
                   task, fetches, wg, closer, statsChan, closed, statsMap, panicked>>
    /\ UNCHANGED <<fnVars, mainVars, peer>>

Next ==
    \/ Begin
    \/ DeadlineElapses
    \/ ContainerList
    \/ Inspect
    \/ Spawn
    \/ \E i \in 1..MaxContainers : StatsReturn(i)
    \/ \E i \in 1..MaxContainers : Post(i)
    \/ \E i \in 1..MaxContainers : TaskExit(i)
    \/ CloseChan
    \/ Receive
    \/ DrainEnd
    \/ Assemble
    \/ EngineInfo

Spec == Init /\ [][Next]_vars

\* ------------------------------------------ functions applied on their own
\* A behaviour of SpecFn applies one function of the program to one input
\* (fn says which, arg is the input, out the result); no scrape runs.
\* The width of the model's unsigned counters (uint64 in the code), and
\* the largest CPU count a stats response reports.
WordBits == 4
MaxCPUs == 2

\* What an unsigned counter holds: 0 .. 2^WordBits - 1.
WordModulus == 2 ^ WordBits

\* a - b on unsigned integers of the word's width: the difference wraps.
SubUint(a, b) == (a - b + WordModulus) % WordModulus

\* The greatest common divisor of two naturals.
RECURSIVE GCD(_, _)
GCD(a, b) == IF b = 0 THEN a ELSE GCD(b, a % b)

\* A float64 value, kept as the exact fraction n / d in lowest terms (d > 0).
Ratio(n, d) == LET g == GCD(n, d) IN [num |-> n \div g, den |-> d \div g]

\* float64 multiplication by the natural k.
Times(r, k) == Ratio(r.num * k, r.den)

\* The CPU count taken as reported, without a fallback.
cpuCountReported(stats) == stats.OnlineCPUs

\* calculateCPUPercent: cpuCount, the reported online CPUs, else the number
\* of per-core counters, else 1.
cpuCount(stats) ==
    IF stats.OnlineCPUs # 0 THEN stats.OnlineCPUs
    ELSE IF stats.PercpuLen # 0 THEN stats.PercpuLen
    ELSE 1

\* calculateCPUPercent
calculateCPUPercent(stats) ==
    LET cpuDelta == SubUint(stats.TotalUsage, stats.PreTotalUsage)
        systemDelta == SubUint(stats.SystemUsage, stats.PreSystemUsage)
    IN  IF systemDelta > 0 /\ cpuDelta > 0
        THEN Times(Times(Ratio(cpuDelta, systemDelta), cpuCount(stats)), 100)
        ELSE Ratio(0, 1)

\* A memory percent that is the bare quotient.
MemoryPercentUnscaled(usage, limit) == IF limit > 0 THEN Ratio(usage, limit) ELSE Ratio(0, 1)

\* GetContainerStats: result.MemoryPercent (the zero value when the limit is 0).
MemoryPercent(usage, limit) ==
    IF limit > 0 THEN Times(Ratio(usage, limit), 100) ELSE Ratio(0, 1)

\* The values a CPU counter of a stats response takes: in units of 100 ms
\* of CPU time, up to the largest value of the word.
CounterValues == {0, 1, 2, 10, WordModulus - 1}

\* The stats responses calculateCPUPercent is applied to.
CPUInputs ==
    [ TotalUsage : CounterValues, PreTotalUsage : CounterValues,
      SystemUsage : CounterValues, PreSystemUsage : CounterValues,
      OnlineCPUs : 0..MaxCPUs, PercpuLen : 0..MaxCPUs ]

\* The memory usage and limit of a stats response, in MiB.
MemoryValues == {0, 1, 3, 512, 1024}

\* The lifecycle states and health states an inspect response may carry.
StatusInputs ==
    { "running", "paused", "restarting", "exited", "dead", "created",
      "", "Running", "EXITED", "removing" }
HealthInputs == { "healthy", "unhealthy", "starting", "none", "", "Healthy", HealthNil }

\* An instant later than every reading of the exporter's clock.
AheadOfClock == (CHOOSE t \in StartInstants : \A u \in StartInstants : u <= t) + MaxElapsed + 1

\* The start timestamps an inspect response may carry.
StartedInputs == { TS(TRUE, 7), TS(TRUE, ZeroTime), TS(FALSE, 0), TS(TRUE, AheadOfClock) }

\* The inspect response of a container of shape p.
RespOf(p) == InspectResponse(MkID(1, 1), p)

\* The value of the sample of descriptor desc among the samples ms.
MetricValue(ms, desc) == ms[CHOOSE k \in DOMAIN ms : ms[k].desc = desc].value

\* calculateCPUPercent is applied to a stats response.
ApplyCPUPercent ==
    /\ fn = "none"
    /\ \E stats \in CPUInputs :
          /\ arg' = stats
          /\ out' = calculateCPUPercent(stats)
    /\ fn' = "calculateCPUPercent"
    /\ UNCHANGED <<scrapeVars, mainVars, peer>>

\* GetContainerStats computes the memory percent of a stats response.
ApplyMemoryPercent ==
    /\ fn = "none"
    /\ \E usage, limit \in MemoryValues :
          /\ arg' = [Usage |-> usage, Limit |-> limit]
          /\ out' = MemoryPercent(usage, limit)
    /\ fn' = "MemoryPercent"
    /\ UNCHANGED <<scrapeVars, mainVars, peer>>

\* A container is inspected and its samples are emitted, for every
\* lifecycle state the runtime may report.
ApplyStateToCode ==
    /\ fn = "none"
    /\ \E p \in Profiles, s \in StatusInputs, t \in StartInstants :
          LET resp == RespOf([p EXCEPT !.Status = s]) IN
          /\ arg' = resp
          /\ out' = ContainerMetrics(InspectContainer(resp), EmptyMap, t)
    /\ fn' = "stateToCode"
    /\ UNCHANGED <<scrapeVars, mainVars, peer>>

\* A container is inspected and its samples are emitted, for every health
\* state the runtime may report, and for none.
ApplyHealthToCode ==
    /\ fn = "none"
    /\ \E p \in Profiles, h \in HealthInputs, t \in StartInstants :
          LET resp == RespOf([p EXCEPT !.Health = h]) IN
          /\ arg' = [resp |-> resp, cont |-> InspectContainer(resp)]
          /\ out' = ContainerMetrics(InspectContainer(resp), EmptyMap, t)
    /\ fn' = "healthToCode"
    /\ UNCHANGED <<scrapeVars, mainVars, peer>>

\* A container is inspected and its samples are emitted at some reading of
\* the clock, for every start timestamp the runtime may report.
ApplyUptime ==
    /\ fn = "none"
    /\ \E p \in Profiles, st \in StartedInputs, t \in StartInstants, e \in 0..MaxElapsed :
          LET resp == RespOf([p EXCEPT !.StartedAt = st]) IN
          /\ arg' = [cont |-> InspectContainer(resp), now |-> t + e]
          /\ out' = ContainerMetrics(InspectContainer(resp), EmptyMap, t + e)
    /\ fn' = "uptime"
    /\ UNCHANGED <<scrapeVars, mainVars, peer>>

NextFn ==
    \/ ApplyCPUPercent
    \/ ApplyMemoryPercent
    \/ ApplyStateToCode
    \/ ApplyHealthToCode
    \/ ApplyUptime

SpecFn == Init /\ [][NextFn]_vars

\* ----------------------------------------------------- reading the state
\* The descriptors of the identity and lifecycle metrics of a container
\* that do not depend on a timestamp being present.
IdentityDescs ==
    { "container_info", "container_state", "container_uptime_seconds",
      "container_restart_count", "container_health_status", "container_exit_code",
      "container_oom_killed" }

\* The descriptors of the two timestamp metrics of a container.
TimestampDescs == { "container_created_seconds", "container_started_seconds" }

\* The descriptors of the resource metrics every sample yields.
ResourceDescs ==
    { "container_cpu_usage_percent", "container_cpu_usage_seconds_total",
      "container_memory_usage_bytes", "container_memory_limit_bytes",
      "container_memory_usage_percent", "container_blkio_read_bytes_total",
      "container_blkio_write_bytes_total" }

\* The descriptors of the per-interface metrics of a sample.
NetworkDescs == { "container_network_rx_bytes_total", "container_network_tx_bytes_total" }

\* The descriptors of the container-scoped metrics.
ContainerDescs == IdentityDescs \cup TimestampDescs \cup ResourceDescs \cup NetworkDescs

\* The descriptors of the engine-derived metrics.
EngineDescs == { "engine_info", "containers_total", "images_total" }

\* How many samples of the descriptor desc the scrape has emitted.
Count(desc) == Cardinality({ k \in DOMAIN ch : ch[k].desc = desc })

\* How many samples of the descriptor desc the scrape has emitted with the
\* id and name labels of the container cont.
CountFor(desc, cont) ==
    Cardinality({ k \in DOMAIN ch :
        ch[k].desc = desc /\ SubSeq(ch[k].labels, 1, 2) = <<cont.ID, cont.Name>> })

IsContainerScoped(m) == m.desc \in ContainerDescs

\* The container-scoped samples of the scrape, in the order of emission.
ContainerScoped(c) == SelectSeq(c, IsContainerScoped)

\* The emission loop has run (it runs only for a non-empty inventory).
Assembled == pc \in {"engine", "done"} /\ containers # <<>>

\* The fetch goroutine of the i-th listed container got a sample from
\* GetContainerStats.
FetchReturnedSample(i) == task[i].st \in {"got", "posted", "done"}

\* The fetch goroutine of the i-th listed container is running.
InFlight(i) == task[i].st \in {"calling", "got", "posted"}

\* Every fetch goroutine that was started has returned.
AllTasksReturned == \A i \in DOMAIN task : ~InFlight(i)

\* Some resource metric was emitted with the labels of the container cont.
ResourceEmitted(cont) == \E d \in ResourceDescs \cup NetworkDescs : CountFor(d, cont) >= 1

\* The listed containers that are running.
RunningSet == { i \in DOMAIN containers : containers[i].Running }

\* The phase of the scrape that the orchestrator is in.
PhaseRank(p) ==
    CASE p = "idle" -> 0
      [] p \in {"list", "inspect"} -> 1
      [] p \in {"spawn", "drain"} -> 2
      [] p \in {"assemble", "engine"} -> 3
      [] p = "done" -> 4

\* ------------------------------------------------------------------ C1
\* C1: once the emission loop has run, every listed container has each of
\* its identity/lifecycle metrics (info, state, uptime, restart count,
\* health, exit code, oom), and resource metrics were emitted with a
\* container's labels if and only if that container's own fetch returned a
\* sample.
C1_PartialFailure ==
    Assembled =>
        \A i \in DOMAIN containers :
            /\ \A d \in IdentityDescs : CountFor(d, containers[i]) >= 1
            /\ ResourceEmitted(containers[i]) <=> FetchReturnedSample(i)

\* ------------------------------------------------------------------ C2
\* C2: in a scrape whose listing succeeded, the containers for which a
\* fetch task was started are exactly the listed containers with
\* Running = true, one task each: while the tasks are being started this
\* holds of the containers already visited, and from then on of all.
C2_OneFetchPerRunning ==
    /\ pc = "spawn" =>
          \A i \in DOMAIN containers :
             fetches[i] = (IF i < sp /\ containers[i].Running THEN 1 ELSE 0)
    /\ (pc \in {"drain", "assemble", "engine", "done"} /\ ~listErr) =>
          /\ DOMAIN fetches = DOMAIN containers
          /\ \A i \in DOMAIN containers :
                /\ fetches[i] = (IF containers[i].Running THEN 1 ELSE 0)
                /\ task[i].st # "none" <=> containers[i].Running
          /\ Cardinality({ i \in DOMAIN fetches : fetches[i] >= 1 }) = Cardinality(RunningSet)

\* A scrape has ended whose inventory had a running and a stopped container.
C2_Witness ==
    /\ pc = "done"
    /\ \E i, j \in DOMAIN containers : containers[i].Running /\ ~containers[j].Running

\* ------------------------------------------------------------------ C3
\* C3: within a scrape the orchestrator's phase never decreases (listing,
\* fetching, assembling, done); whenever a container-scoped metric has been
\* emitted every fetch task that was started has returned; and while the
\* listing has not returned no fetch task has been started.
C3_PhaseOrder ==
    [][ /\ pc' # "list" => PhaseRank(pc') >= PhaseRank(pc)
        /\ ContainerScoped(ch') # <<>> => AllTasksReturned'
        /\ pc' \in {"list", "inspect"} => (task' = <<>> /\ wg' = 0) ]_vars

\* A scrape has ended that started a fetch task and emitted container metrics.
C3_Witness ==
    /\ pc = "done"
    /\ ContainerScoped(ch) # <<>>
    /\ \E i \in DOMAIN task : task[i].st = "done"
    /\ \E i \in DOMAIN task : task[i].st = "failed"

\* ------------------------------------------------------------------ C4
\* C4 as stated: a scrape whose listing failed has emitted, when it ends,
\* one build-info and one scrape-duration sample and nothing else.
C4_OnlyFixedOnListFailure ==
    (pc = "done" /\ listErr) =>
        /\ Len(ch) = 2
        /\ Count("build_info") = 1
        /\ Count("scrape_duration_seconds") = 1

\* C4 as amended: a scrape whose listing failed has emitted, when it ends,
\* no container-scoped sample, one build-info and one scrape-duration
\* sample, and the five engine samples if and only if GetEngineInfo, which
\* is still called, succeeded.
C4_NoContainerSamplesOnListFailure ==
    (pc = "done" /\ listErr) =>
        /\ ContainerScoped(ch) = <<>>
        /\ fetches = <<>>
        /\ Count("build_info") = 1
        /\ Count("scrape_duration_seconds") = 1
        /\ engine \in {"ok", "err"}
        /\ Count("engine_info") = (IF engine = "ok" THEN 1 ELSE 0)
        /\ Count("containers_total") = (IF engine = "ok" THEN 3 ELSE 0)
        /\ Count("images_total") = (IF engine = "ok" THEN 1 ELSE 0)
        /\ Len(ch) = (IF engine = "ok" THEN 7 ELSE 2)

\* A scrape has ended whose listing failed and whose engine lookup succeeded.
C4_Witness == pc = "done" /\ listErr /\ engine = "ok"

\* ------------------------------------------------------------------ C5
\* C5: a scrape never has more than one build-info or more than one
\* scrape-duration sample, it has its build-info sample from its beginning,
\* and when it ends it has exactly one of each.
C5_OneBuildInfoOneDuration ==
    /\ Count("build_info") <= 1
    /\ Count("scrape_duration_seconds") <= 1
    /\ pc # "idle" => Count("build_info") = 1
    /\ pc = "done" => Count("scrape_duration_seconds") = 1
    /\ pc # "done" => Count("scrape_duration_seconds") = 0

\* A scrape has ended in which an inspect call, a stat fetch and the engine
\* lookup failed.
C5_Witness ==
    /\ pc = "done"
    /\ engine = "err"
    /\ Len(containers) < Len(enum)
    /\ \E i \in DOMAIN task : task[i].st = "failed"

\* ------------------------------------------------------------------ C6
\* The state labels of the containers-total samples of the scrape.
StateLabels == { ch[k].labels[1] : k \in { j \in DOMAIN ch : ch[j].desc = "containers_total" } }

\* C6: the step in which GetEngineInfo returns ends the scrape, leaves the
\* container-scoped samples as they were, and adds the five engine samples
\* (engine-info, containers-total for running, paused and stopped,
\* images-total) if the call succeeded and no engine sample if it failed;
\* before that step no engine sample exists.
C6_EngineSamplesIffSuccess ==
    [][ /\ pc' # "done" => \A d \in EngineDescs : Count(d)' = 0
        /\ (pc = "engine" /\ pc' # pc) =>
              /\ pc' = "done"
              /\ engine' \in {"ok", "err"}
              /\ ContainerScoped(ch') = ContainerScoped(ch)
              /\ engine' = "ok" =>
                    /\ Count("engine_info")' = 1
                    /\ Count("containers_total")' = 3
                    /\ StateLabels' = {"running", "paused", "stopped"}
                    /\ Count("images_total")' = 1
                    /\ Len(ch') = Len(ch) + 6
              /\ engine' = "err" =>
                    /\ \A d \in EngineDescs : Count(d)' = 0
                    /\ Len(ch') = Len(ch) + 1 ]_vars

\* A scrape has ended whose engine lookup failed and which emitted
\* container-scoped samples, resource metrics among them.
C6_Witness ==
    /\ pc = "done"
    /\ engine = "err"
    /\ \E i \in DOMAIN containers : ResourceEmitted(containers[i])

\* ------------------------------------------------------------------ C7
\* The descriptors of the samples of the scrape, in the order of emission.
DescSeq == [k \in DOMAIN ch |-> ch[k].desc]

\* C7: a scrape whose listing returned an empty inventory and whose engine
\* lookup succeeded has started no fetch task and has emitted, when it
\* ends, exactly seven samples: build-info, engine-info, the three
\* containers-total, images-total and scrape-duration.
C7_EmptyInventoryFixedSet ==
    (pc = "done" /\ ~listErr /\ containers = <<>> /\ engine = "ok") =>
        /\ DescSeq = << "build_info", "engine_info", "containers_total", "containers_total",
                        "containers_total", "images_total", "scrape_duration_seconds" >>
        /\ StateLabels = {"running", "paused", "stopped"}
        /\ ContainerScoped(ch) = <<>>
        /\ task = <<>> /\ fetches = <<>> /\ wg = 0

\* A scrape has ended whose inventory was empty because the inspect call of
\* every enumerated container failed, and whose engine lookup succeeded.
C7_Witness ==
    pc = "done" /\ ~listErr /\ containers = <<>> /\ enum # <<>> /\ engine = "ok"

\* ------------------------------------------------------------------ C8
\* C8 as stated: once the emission loop has run, every listed container
\* has each of its nine fixed metrics, the created and started timestamp
\* samples included.
C8_AllFixedMetricsUnconditional ==
    Assembled =>
        \A i \in DOMAIN containers :
            \A d \in IdentityDescs \cup TimestampDescs : CountFor(d, containers[i]) = 1

\* C8 as amended: once the emission loop has run, every listed container
\* has exactly one sample of each of info, state, uptime, restart count,
\* health status, exit code and oom-killed; it has a created timestamp
\* sample if and only if its created timestamp is present (not the zero
\* time), and a started timestamp sample if and only if its started
\* timestamp is present; no timestamp sample has the value zero.
C8_TimestampsOnlyWhenPresent ==
    Assembled =>
        /\ \A i \in DOMAIN containers :
              /\ \A d \in IdentityDescs : CountFor(d, containers[i]) = 1
              /\ CountFor("container_created_seconds", containers[i])
                    = (IF containers[i].Created # ZeroTime THEN 1 ELSE 0)
              /\ CountFor("container_started_seconds", containers[i])
                    = (IF containers[i].Started # ZeroTime THEN 1 ELSE 0)
        /\ \A k \in DOMAIN ch : ch[k].desc \in TimestampDescs => ch[k].value # ZeroTime

\* The emission loop has run for an inventory with a container whose
\* created timestamp is absent and a container whose started timestamp is
\* absent while its created timestamp is present.
C8_Witness ==
    /\ Assembled
    /\ \E i \in DOMAIN containers : containers[i].Created = ZeroTime
    /\ \E i \in DOMAIN containers :
          containers[i].Started = ZeroTime /\ containers[i].Created # ZeroTime

C10_LateSampleIgnored ==
    Assembled =>
        \A i \in DOMAIN containers : task[i].late => ~ResourceEmitted(containers[i])

\* C10 as amended: a sample posted after the deadline had elapsed is
\* collected and emitted like any other: once the emission loop has run,
\* every container whose fetch task posted a sample, late or not, has each
\* resource metric exactly once.  Nothing is left for a later scrape: when
\* the scrape ends every fetch task has returned and statsChan is closed
\* and empty, and a scrape begins with no task, an empty statsMap and an
\* open, empty statsChan.
C10_LateSampleEmitted ==
    /\ Assembled =>
          \A i \in DOMAIN containers :
             task[i].st = "done" =>
                \A d \in ResourceDescs : CountFor(d, containers[i]) = 1
    /\ pc = "done" => (AllTasksReturned /\ statsChan = <<>> /\ wg = 0)
    /\ (pc = "done" /\ containers # <<>>) => closed
    /\ pc \in {"list", "inspect"} =>
          (task = <<>> /\ statsChan = <<>> /\ ~closed /\ DOMAIN statsMap = {})

\* A scrape has ended in which a fetch task posted its sample after the
\* deadline had elapsed.
C10_Witness ==
    /\ pc = "done"
    /\ \E i \in DOMAIN task : task[i].late /\ task[i].st = "done"

\* ------------------------------------------------------------------ C11
\* C11: a scrape has one deadline, set when it begins, and every runtime
\* call of the scrape is bound to it: the deadline, once elapsed, stays
\* elapsed until the next scrape begins, and a runtime call that completes
\* after it has elapsed completes with a failure, be it the container
\* listing, an inspect call, a stats fetch or the engine-info lookup.
C11_SharedDeadline ==
    [][ /\ (expired /\ ~expired') => (pc \in {"idle", "done"} /\ pc' = "list")
        /\ expired =>
              /\ (pc = "list" /\ pc' # "list") => listErr'
              /\ (pc = "inspect" /\ idx' # idx) => containers' = containers
              /\ \A i \in DOMAIN task :
                    (task[i].st = "calling" /\ i \in DOMAIN task' /\ task'[i].st # "calling")
                        => task'[i].st = "failed"
              /\ (pc = "engine" /\ pc' = "done") => engine' = "err" ]_vars

\* A scrape has ended whose deadline elapsed while a stats fetch was under
\* way: the fetch failed, and so did the engine-info lookup after it.
C11_Witness ==
    /\ pc = "done" /\ expired /\ engine = "err"
    /\ \E i \in DOMAIN task : task[i].st = "failed"
    /\ \E i \in DOMAIN task : task[i].st = "done" /\ ~task[i].late

\* ------------------------------------------------------------------ C12
\* C12 as stated: whenever calculateCPUPercent has been applied to a stats
\* response, its result is not negative, and it is exactly 0 if the usage
\* delta (current minus previous total usage) or the system delta (current
\* minus previous system usage) is <= 0, a current counter smaller than
\* the previous one included.
C12_ZeroOnNonPositiveDelta ==
    fn = "calculateCPUPercent" =>
        /\ out.num >= 0
        /\ (\/ arg.TotalUsage - arg.PreTotalUsage <= 0
            \/ arg.SystemUsage - arg.PreSystemUsage <= 0) => out.num = 0

\* ------------------------------------------------------------------ C13
\* The CPU count C13 names: the reported online CPUs if non-zero, else the
\* number of per-core counters if non-zero, else 1.
C13_N == IF arg.OnlineCPUs # 0 THEN arg.OnlineCPUs
         ELSE IF arg.PercpuLen # 0 THEN arg.PercpuLen ELSE 1

\* The stats response of C13's example, in units of 100 ms of CPU time:
\* usage delta 200,000,000 ns, system delta 1,000,000,000 ns, 2 online CPUs.
C13_Example ==
    /\ arg.TotalUsage - arg.PreTotalUsage = 2
    /\ arg.SystemUsage - arg.PreSystemUsage = 10
    /\ arg.OnlineCPUs = 2

\* C13: whenever calculateCPUPercent has been applied to a stats response
\* whose usage delta and system delta are both positive, its result is
\* (usageDelta / systemDelta) * n * 100 for the CPU count n of C13_N; for
\* the example it is 40.
C13_CPUPercentFormula ==
    (/\ fn = "calculateCPUPercent"
     /\ arg.TotalUsage - arg.PreTotalUsage > 0
     /\ arg.SystemUsage - arg.PreSystemUsage > 0) =>
        /\ out.den > 0
        /\ out.num * (arg.SystemUsage - arg.PreSystemUsage)
              = (arg.TotalUsage - arg.PreTotalUsage) * C13_N * 100 * out.den
        /\ C13_Example => (out.num = 40 /\ out.den = 1)

\* calculateCPUPercent has been applied to the example with no online-CPU
\* count reported and two per-core counters.
C13_Witness ==
    /\ fn = "calculateCPUPercent"
    /\ arg.TotalUsage - arg.PreTotalUsage = 2
    /\ arg.SystemUsage - arg.PreSystemUsage = 10
    /\ arg.OnlineCPUs = 0 /\ arg.PercpuLen = 2
    /\ out = [num |-> 40, den |-> 1]

\* ------------------------------------------------------------------ C14
\* C14: whenever the memory percent of a stats response has been computed,
\* it is usage / limit * 100 if the limit is > 0 and 0 if the limit is 0;
\* for usage 512 MiB and limit 1024 MiB it is 50.
C14_MemoryPercent ==
    fn = "MemoryPercent" =>
        /\ out.den > 0
        /\ arg.Limit > 0 => out.num * arg.Limit = arg.Usage * 100 * out.den
        /\ arg.Limit = 0 => out.num = 0
        /\ (arg.Usage = 512 /\ arg.Limit = 1024) => (out.num = 50 /\ out.den = 1)

\* The memory percent has been computed for usage 512 MiB, limit 1024 MiB.
C14_Witness ==
    fn = "MemoryPercent" /\ arg.Usage = 512 /\ arg.Limit = 1024 /\ out = [num |-> 50, den |-> 1]

\* ------------------------------------------------------------------ C15
\* C15: whenever a container has been inspected and its samples emitted,
\* there is one container-state sample and its value is the code of the
\* lifecycle state the runtime reported: running 1, paused 2, restarting 3,
\* exited 4, dead 5, created 6, and 0 for every other string, the empty
\* string and other spellings included; stateToCode of that state is the
\* same value, one of 0..6.
C15_StateCode ==
    fn = "stateToCode" =>
        LET s == arg.State.Status
            v == MetricValue(out, "container_state")
        IN  /\ Cardinality({ k \in DOMAIN out : out[k].desc = "container_state" }) = 1
            /\ v = stateToCode(s)
            /\ v \in 0..6
            /\ s = "running" => v = 1
            /\ s = "paused" => v = 2
            /\ s = "restarting" => v = 3
            /\ s = "exited" => v = 4
            /\ s = "dead" => v = 5
            /\ s = "created" => v = 6
            /\ s \notin {"running", "paused", "restarting", "exited", "dead", "created"} => v = 0

\* The samples of a container whose state is spelled "Running" have been
\* emitted, with state code 0.
C15_Witness ==
    /\ fn = "stateToCode" /\ arg.State.Status = "Running"
    /\ MetricValue(out, "container_state") = 0

\* ------------------------------------------------------------------ C16
\* C16: whenever a container has been inspected and its samples emitted,
\* the value of its health-status sample is 1 for healthy, 0 for unhealthy,
\* 2 for starting and -1 for none, the empty string and every other
\* string; a container without a health-check record has health state
\* "none" and health-status value -1.
C16_HealthCode ==
    fn = "healthToCode" =>
        LET h == arg.resp.State.Health
            v == MetricValue(out, "container_health_status")
        IN  /\ Cardinality({ k \in DOMAIN out : out[k].desc = "container_health_status" }) = 1
            /\ v = healthToCode(arg.cont.Health)
            /\ h = "healthy" => v = 1
            /\ h = "unhealthy" => v = 0
            /\ h = "starting" => v = 2
            /\ h \notin {"healthy", "unhealthy", "starting"} => v = -1
            /\ h = HealthNil => (arg.cont.Health = "none" /\ v = -1)
            /\ h # HealthNil => arg.cont.Health = h

\* The samples of a container without a health-check record have been
\* emitted, with health-status value -1.
C16_Witness ==
    /\ fn = "healthToCode" /\ arg.resp.State.Health = HealthNil
    /\ arg.cont.Health = "none"
    /\ MetricValue(out, "container_health_status") = -1

\* ------------------------------------------------------------------ C17
\* C17 as stated: whenever a container has been inspected and its samples
\* emitted at the instant now, the value of its uptime sample is
\* now - startedAt if the container is running and its start timestamp is
\* known, and 0 otherwise, and it is not negative.
C17_UptimeNeverNegative ==
    fn = "uptime" =>
        LET v == MetricValue(out, "container_uptime_seconds") IN
        /\ v = (IF arg.cont.Running /\ arg.cont.Started # ZeroTime
                THEN arg.now - arg.cont.Started ELSE 0)
        /\ v >= 0

\* ------------------------------------------------------------------ C18
\* The values of the uptime samples emitted with the labels of cont.
UptimeValues(cont) ==
    { ch[k].value : k \in { j \in DOMAIN ch :
                               /\ ch[j].desc = "container_uptime_seconds"
                               /\ ch[j].labels = <<cont.ID, cont.Name>> } }

\* C18 as stated: once the emission loop has run, the uptime emitted for
\* every running container with a known start timestamp is the scrape's
\* start instant minus that timestamp, so that two such containers with
\* the same start timestamp have equal uptimes, whatever time the listing,
\* the fetches and the earlier emissions took.
C18_UptimeAtScrapeStart ==
    Assembled =>
        \A i \in DOMAIN containers :
            (containers[i].Running /\ ~IsZero(containers[i].Started)) =>
                UptimeValues(containers[i]) = { start - containers[i].Started }

\* ------------------------------------------------------------------ C19
\* The snapshot ListContainers returns for the enumerated container id.
SnapshotOf(info, id) ==
    info.ID = Truncate(id) /\ info.Name = TrimPrefix(RuntimeName(id), "/")

\* The snapshots in result are of enumerated containers, at most one per
\* enumerated container, in the order of the enumeration e.
InEnumOrder(result, e) ==
    \E f \in [DOMAIN result -> DOMAIN e] :
        /\ \A i, j \in DOMAIN result : i < j => f[i] < f[j]
        /\ \A i \in DOMAIN result : SnapshotOf(result[i], e[f[i]])

\* C19: ListContainers fails only when the enumeration fails.  Each turn of
\* its inspect loop either fails and adds nothing to the result, or
\* succeeds and appends the one snapshot of the container inspected; no
\* turn makes the listing fail.  The result is at all times a selection of
\* the enumerated containers in enumeration order, and it is what
\* collectContainerMetrics works with until the scrape ends.
C19_ListToleratesInspectFailure ==
    [][ /\ (listErr' /\ ~listErr) => (pc = "list" /\ enum' = <<>> /\ containers' = <<>>)
        /\ pc = "inspect" => ~listErr'
        /\ (pc = "inspect" /\ idx' = idx) => containers' = containers
        /\ (pc = "inspect" /\ idx' # idx) =>
              /\ \/ containers' = containers
                 \/ /\ Len(containers') = Len(containers) + 1
                    /\ SubSeq(containers', 1, Len(containers)) = containers
                    /\ SnapshotOf(containers'[Len(containers')], enum[idx])
              /\ idx' = (IF idx = Len(enum) THEN 0 ELSE idx + 1)
        /\ (pc \notin {"idle", "done", "inspect"}) => containers' = containers
        /\ InEnumOrder(containers', enum') ]_vars

\* A scrape has ended whose listing succeeded although the inspect call of
\* the first of two enumerated containers failed: the result is the
\* snapshot of the second.
C19_Witness ==
    /\ pc = "done" /\ ~listErr
    /\ Len(enum) = 2 /\ Len(containers) = 1
    /\ SnapshotOf(containers[1], enum[2])
    /\ ~SnapshotOf(containers[1], enum[1])

\* ------------------------------------------------- two scrapes, one world
\* A behaviour of SpecTwice runs two consecutive scrapes against a runtime
\* whose state does not change and whose calls have the same outcome in
\* both: arg holds that state and those outcomes, out the samples of the
\* first scrape, fn which scrape is running.

\* The elements of a sequence.
Range(q) == { q[k] : k \in DOMAIN q }

\* The shapes of container of an unchanging runtime: a running, an exited
\* and a created one.
WorldProfiles == { p \in Profiles : p.Created.ok }

\* The enumerations of an unchanging runtime: it lists its containers in
\* one order, that of their identifiers.
WorldEnums ==
    { e \in SeqsNoRep(RuntimeIDs, MaxContainers) :
        \A i, j \in DOMAIN e : i < j => RuntimeCounters(e[i]) < RuntimeCounters(e[j]) }

\* An unchanging runtime and the outcomes of the calls of a scrape: whether
\* the enumeration fails, the enumeration, per enumerated container
\* whether its inspect call succeeds, its shape and whether the stats
\* fetch for it succeeds, per requested identifier the container the
\* runtime answers for, and whether the engine lookup succeeds.
Worlds ==
    UNION { [ listErr : IF e = <<>> THEN BOOLEAN ELSE {FALSE},
              enum : {e},
              inspectOK : [Range(e) -> BOOLEAN],
              profile : [Range(e) -> WorldProfiles],
              fetchOK : [Range(e) -> BOOLEAN],
              resolve : { f \in [{ Truncate(x) : x \in Range(e) } -> RuntimeIDs] :
                            \A s \in DOMAIN f : f[s] \in Resolve(s) },
              engineOK : BOOLEAN ] : e \in WorldEnums }

\* A world in which every choice that no call reads has one value: the
\* shape of a container whose inspect call fails, and the outcome of a
\* stats fetch that is not made.
Canonical(w) ==
    \A x \in Range(w.enum) :
        /\ ~w.inspectOK[x] => w.profile[x] = (CHOOSE p \in WorldProfiles : TRUE)
        /\ (~w.inspectOK[x] \/ ~w.profile[x].Running) => ~w.fetchOK[x]

\* The enumerated container that the snapshot cont is of.
IdOf(cont, e) == CHOOSE x \in Range(e) : SnapshotOf(cont, x)

\* A sample without its value, if it is an uptime or the scrape duration.
MaskValue(m) ==
    IF m.desc \in {"scrape_duration_seconds", "container_uptime_seconds"}
    THEN [m EXCEPT !.value = 0]
    ELSE m

\* The samples c, uptime values and scrape duration left out.
Masked(c) == [k \in DOMAIN c |-> MaskValue(c[k])]

\* The runtime's state and the outcomes of the calls are fixed.
FixWorld ==
    /\ fn = "none" /\ pc = "idle"
    /\ \E w \in Worlds : Canonical(w) /\ arg' = w
    /\ fn' = "first"
    /\ UNCHANGED <<scrapeVars, out, mainVars, peer>>

\* The first scrape begins.
BeginFirst ==
    /\ fn = "first" /\ pc = "idle"
    /\ Begin

\* The first scrape has ended and the second begins.
BeginSecond ==
    /\ fn = "first" /\ pc = "done"
    /\ BeginScrape
    /\ fn' = "second"
    /\ out' = Masked(ch)
    /\ UNCHANGED <<arg, mainVars, peer>>

\* The steps of a scrape, with the outcomes of the world.
ContainerListW ==
    /\ fn \in {"first", "second"}
    /\ ContainerList
    /\ listErr' = arg.listErr
    /\ ~arg.listErr => enum' = arg.enum

InspectW ==
    /\ fn \in {"first", "second"}
    /\ Inspect
    /\ containers' =
          (IF arg.inspectOK[enum[idx]]
           THEN Append(containers, InspectContainer(InspectResponse(enum[idx], arg.profile[enum[idx]])))
           ELSE containers)

StatsReturnW(i) ==
    /\ fn \in {"first", "second"}
    /\ StatsReturn(i)
    /\ IF arg.fetchOK[IdOf(containers[i], enum)]
       THEN /\ task'[i].st = "got"
            /\ task'[i].stats[1].Counters = RuntimeCounters(arg.resolve[containers[i].ID])
       ELSE task'[i].st = "failed"

EngineInfoW ==
    /\ fn \in {"first", "second"}
    /\ EngineInfo
    /\ engine' = (IF arg.engineOK THEN "ok" ELSE "err")

\* The steps of a scrape that call nothing.
ScrapeStepW ==
    /\ fn \in {"first", "second"}
    /\ \/ DeadlineElapses
       \/ Spawn
       \/ \E i \in 1..MaxContainers : Post(i)
       \/ \E i \in 1..MaxContainers : TaskExit(i)
       \/ CloseChan
       \/ Receive
       \/ DrainEnd
       \/ Assemble

NextTwice ==
    \/ FixWorld
    \/ BeginFirst
    \/ BeginSecond
    \/ ContainerListW
    \/ InspectW
    \/ \E i \in 1..MaxContainers : StatsReturnW(i)
    \/ EngineInfoW
    \/ ScrapeStepW

SpecTwice == Init /\ [][NextTwice]_vars

\* ------------------------------------------------------------------ C20
\* The descriptors NewCollector creates.
Registry == ContainerDescs \cup EngineDescs \cup {"build_info", "scrape_duration_seconds"}

\* The samples a and b are the same sample.
SameSample(a, b) == a.desc = b.desc /\ a.labels = b.labels /\ a.value = b.value

\* How often the sample m occurs among the samples c.
Occurrences(c, m) == Cardinality({ j \in DOMAIN c : SameSample(c[j], m) })

\* The samples a and b are the same samples, each as often.
SameSamples(a, b) ==
    /\ Len(a) = Len(b)
    /\ \A k \in DOMAIN a : Occurrences(a, a[k]) = Occurrences(b, a[k])

\* C20: when the second of two consecutive scrapes against an unchanging
\* runtime, with the same call outcomes, has ended, its samples are those
\* of the first, uptime values and scrape duration apart; the second scrape
\* begins with nothing of the first (no snapshot, no fetch task, no sample,
\* no metric but its own build-info gauge); and every sample of a scrape
\* is of a descriptor NewCollector created.
C20_Idempotent ==
    /\ (fn = "second" /\ pc = "done") => SameSamples(Masked(ch), out)
    /\ (fn = "second" /\ pc = "list") =>
          /\ enum = <<>> /\ containers = <<>> /\ task = <<>> /\ wg = 0
          /\ statsChan = <<>> /\ ~closed /\ DOMAIN statsMap = {}
          /\ ch = <<BuildInfoMetric>>
    /\ \A k \in DOMAIN ch : ch[k].desc \in Registry

\* The second scrape has ended, against a runtime with two containers that
\* share their short identifier, of which the first has exited and the
\* second runs: both scrapes emitted resource samples, and the clock moved
\* during the second.
C20_Witness ==
    /\ fn = "second" /\ pc = "done" /\ engine = "ok"
    /\ Len(containers) = 2
    /\ containers[1].ID = containers[2].ID
    /\ ~containers[1].Running /\ containers[2].Running
    /\ DOMAIN statsMap # {}
    /\ clk > 0
    /\ \E k \in DOMAIN out : out[k].desc = "container_cpu_usage_percent"

\* ------------------------------------------------------------------ C21
\* The samples posted by the fetch task of the i-th listed container that
\* are buffered in statsChan or kept in statsMap.
SamplesOf(i) ==
    Cardinality({ k \in DOMAIN statsChan : statsChan[k].Name = containers[i].Name })
    + Cardinality({ s \in DOMAIN statsMap : statsMap[s].Name = containers[i].Name })

\* C21 as stated: in every scrape there is at most one sample of each
\* listed container's fetch task, and none of a container that is not
\* running; once the emission loop has run, each resource metric has been
\* emitted at most once with a container's labels, and a container for
\* which no sample was obtained has no resource sample at all.
C21_AtMostOneSample ==
    /\ \A i \in DOMAIN task :
          /\ SamplesOf(i) <= 1
          /\ ~containers[i].Running => SamplesOf(i) = 0
    /\ Assembled =>
          \A i \in DOMAIN containers :
             /\ \A d \in ResourceDescs : CountFor(d, containers[i]) <= 1
             /\ ~FetchReturnedSample(i) => ~ResourceEmitted(containers[i])

\* ------------------------------------------------------------------ C22
\* C22: within a scrape no runtime call is issued again.  The enumeration
\* is called only when a scrape begins, and a failed one leads straight to
\* the engine lookup; the inspect loop visits each position of the
\* enumeration once, in order; at most one stats call is made per listed
\* container, and a fetch task that has failed or finished stays so; the
\* engine lookup, once it has returned, is not called again before the
\* next scrape begins.
C22_NoRetry ==
    [][ /\ (pc # "list" /\ pc' = "list") => pc \in {"idle", "done"}
        /\ (pc = "list" /\ listErr') => pc' = "engine"
        /\ (pc # "inspect" /\ pc' = "inspect") => (pc = "list" /\ idx' = 1)
        /\ (pc = "inspect" /\ pc' = "inspect") => idx' \in {idx, idx + 1}
        /\ \A i \in DOMAIN fetches' : fetches'[i] <= 1
        /\ \A i \in DOMAIN task :
              (task[i].st \in {"failed", "done"} /\ pc' # "list") => task'[i] = task[i]
        /\ (engine # "none" /\ pc' # "list") => engine' = engine
        /\ pc = "done" => pc' \in {"done", "list"} ]_vars

\* A scrape has ended in which an inspect call, a stats fetch and the
\* engine lookup failed.
C22_Witness ==
    /\ pc = "done" /\ ~listErr /\ engine = "err"
    /\ Len(containers) < Len(enum)
    /\ \E i \in DOMAIN task : task[i].st = "failed" /\ fetches[i] = 1

\* --------------------------------------- identifiers of any length
\* An identifier shorter than IDLen characters.
ShortID == <<3, 1>>

\* The identifiers a runtime may hand out when their length is not
\* taken for granted.
AnyIDs == {MkID(1, 1), MkID(2, 1), ShortID}

\* s[:12] is in range; out of range it raises a run-time panic.
InRange(s) == Len(s) >= IDLen

\* ListContainers' call of ContainerList, answered by such a runtime.
ContainerListAny == ContainerListOf(AnyIDs)

\* One turn of ListContainers' loop when the identifier of the inspect
\* response may be short: the call fails and the turn is skipped, or it
\* succeeds and inspect.ID[:12] panics; nothing between there and the
\* caller of Collect recovers.
InspectAny ==
    \/ /\ pc = "inspect" /\ InRange(enum[idx])
       /\ Inspect
    \/ /\ pc = "inspect" /\ ~panicked /\ ~InRange(enum[idx])
       /\ \/ /\ IF idx = Len(enum)
                THEN idx' = 0 /\ AfterListing(containers)
                ELSE idx' = idx + 1 /\ UNCHANGED <<pc, sp, task, fetches>>
             /\ UNCHANGED panicked
          \/ /\ CtxAlive(expired)
             /\ panicked' = TRUE
             /\ UNCHANGED <<pc, idx, sp, task, fetches>>
       /\ UNCHANGED <<start, clk, expired, enum, containers, listErr, wg, closer,
                      statsChan, closed, statsMap, ch, engine>>
       /\ UNCHANGED <<fnVars, mainVars, peer>>

NextAny ==
    \/ Begin
    \/ DeadlineElapses
    \/ ContainerListAny
    \/ InspectAny
    \/ Spawn
    \/ \E i \in 1..MaxContainers : StatsReturn(i)
    \/ \E i \in 1..MaxContainers : Post(i)
    \/ \E i \in 1..MaxContainers : TaskExit(i)
    \/ CloseChan
    \/ Receive
    \/ DrainEnd
    \/ Assemble
    \/ EngineInfo

SpecAny == Init /\ [][NextAny]_vars

\* ------------------------------------------------------------------ C23
\* C23: whatever the runtime calls return, identifiers shorter than 12
\* characters included, no scrape raises a panic: Collect is never left
\* by a panic instead of a return.
C23_NeverPanics == ~panicked

\* ------------------------------------------------- the process: main
HealthTimeout == 2      \* the /health handler's context.WithTimeout, seconds
DefaultTimeout == 2     \* the default of --timeout, seconds

\* The values --output and --timeout may be given; no flag is the default.
OutputFlags == {"minimum", "all", "ALL", "everything"}
TimeoutFlags == {1, DefaultTimeout, 3}

\* strings.ToLower, on the values of --output.
ToLower(s) == IF s = "ALL" THEN "all" ELSE s

\* config.Parse: the configuration for the flags given.
Parse(output, timeout) ==
    [OutputMode |-> IF ToLower(output) \notin {"minimum", "all"} THEN "minimum"
                    ELSE ToLower(output),
     Timeout |-> timeout,
     Prefix |-> "ndocker"]

\* The timeout of the /health handler's ping and the timeout of a scrape,
\* under the configuration c.
HealthDeadlineAsScrape(c) == c.Timeout
HealthDeadline(c) == HealthTimeout
ScrapeDeadline(c) == c.Timeout

\* The name under which NewCollector's collector is registered here.
CollectorName == "collector"

\* The containers of the runtime that the process is started against.
ServedIDs == {MkID(1, 1), MkID(2, 1)}

\* The prefix of the metric names that a registered collector exposes.
FamilyOf(c) == IF c = CollectorName THEN cfg.Prefix ELSE c

\* What a response of the metrics endpoint exposes: promhttp.Handler()
\* gathers from every collector of the default registry.
Exposed == { FamilyOf(c) : c \in registered }

\* main: config.Parse.
ParseFlags ==
    /\ mainpc = "parse"
    /\ \E o \in OutputFlags, t \in TimeoutFlags : cfg' = Parse(o, t)
    /\ mainpc' = "client"
    /\ UNCHANGED <<startup, registered, health>>
    /\ UNCHANGED <<scrapeVars, fnVars, peer>>

\* main: docker.NewClient; logger.Fatal when it fails.
NewClient ==
    /\ mainpc = "client"
    /\ \/ /\ startup' = [startup EXCEPT !.client = "ok"]
          /\ mainpc' = "ping"
       \/ /\ startup' = [startup EXCEPT !.client = "err"]
          /\ mainpc' = "fatal"
    /\ UNCHANGED <<cfg, registered, health>>
    /\ UNCHANGED <<scrapeVars, fnVars, peer>>

\* A main that goes on when the startup ping failed.
StartupPingIgnored ==
    /\ mainpc = "ping"
    /\ \E r \in {"ok", "err"} : startup' = [startup EXCEPT !.ping = r]
    /\ mainpc' = "register"
    /\ UNCHANGED <<cfg, registered, health>>
    /\ UNCHANGED <<scrapeVars, fnVars, peer>>

\* main: the startup Ping; logger.Fatal when it fails.
StartupPing ==
    /\ mainpc = "ping"
    /\ \/ /\ startup' = [startup EXCEPT !.ping = "ok"]
          /\ mainpc' = "register"
       \/ /\ startup' = [startup EXCEPT !.ping = "err"]
          /\ mainpc' = "fatal"
    /\ UNCHANGED <<cfg, registered, health>>
    /\ UNCHANGED <<scrapeVars, fnVars, peer>>

\* main: NewCollector and prometheus.MustRegister.
Register ==
    /\ mainpc = "register"
    /\ registered' = registered \cup {CollectorName}
    /\ mainpc' = "handlers"
    /\ UNCHANGED <<cfg, startup, health>>
    /\ UNCHANGED <<scrapeVars, fnVars, peer>>

\* main: the handlers of the mux; promhttp.Handler() registers the
\* handler's own metrics with the default registry.
Handlers ==
    /\ mainpc = "handlers"
    /\ registered' = registered \cup {"promhttp"}
    /\ mainpc' = "listen"
    /\ UNCHANGED <<cfg, startup, health>>
    /\ UNCHANGED <<scrapeVars, fnVars, peer>>

\* main: server.ListenAndServe; logger.Fatal when it cannot listen.
Listen ==
    /\ mainpc = "listen"
    /\ mainpc' \in {"serving", "fatal"}
    /\ UNCHANGED <<cfg, startup, registered, health>>
    /\ UNCHANGED <<scrapeVars, fnVars, peer>>

\* A request to the metrics endpoint: the registry calls Collect.
MetricsRequest ==
    /\ mainpc = "serving"
    /\ Begin

\* A request to /health: the handler calls Ping under its own timeout.
HealthRequest ==
    /\ mainpc = "serving" /\ ~panicked
    /\ health.st # "pinging"
    /\ health' = [NoHealth EXCEPT !.st = "pinging", !.pings = 1,
                                  !.timeout = HealthDeadline(cfg)]
    /\ UNCHANGED <<mainpc, cfg, startup, registered>>
    /\ UNCHANGED <<scrapeVars, fnVars, peer>>

\* A /health handler that answers 200 whatever Ping returned.
HealthAnswerAlwaysOK ==
    /\ health.st = "pinging" /\ ~panicked
    /\ \E r \in {"ok", "err", "timeout"} :
          health' = [health EXCEPT !.st = "answered", !.ping = r,
                                   !.code = 200, !.body = "healthy"]
    /\ UNCHANGED <<mainpc, cfg, startup, registered>>
    /\ UNCHANGED <<scrapeVars, fnVars, peer>>

\* The /health handler: Ping returns, and the handler answers.
HealthAnswer ==
    /\ health.st = "pinging" /\ ~panicked
    /\ \E r \in {"ok", "err", "timeout"} :
          health' = [health EXCEPT !.st = "answered", !.ping = r,
                                   !.code = IF r = "ok" THEN 200 ELSE 503,
                                   !.body = IF r = "ok" THEN "healthy" ELSE "unhealthy"]
    /\ UNCHANGED <<mainpc, cfg, startup, registered>>
    /\ UNCHANGED <<scrapeVars, fnVars, peer>>

NextMain ==
    \/ ParseFlags
    \/ NewClient
    \/ StartupPing
    \/ Register
    \/ Handlers
    \/ Listen
    \/ MetricsRequest
    \/ HealthRequest
    \/ HealthAnswer
    \/ DeadlineElapses
    \/ ContainerListOf(ServedIDs)
    \/ Inspect
    \/ Spawn
    \/ \E i \in 1..MaxContainers : StatsReturn(i)
    \/ \E i \in 1..MaxContainers : Post(i)
    \/ \E i \in 1..MaxContainers : TaskExit(i)
    \/ CloseChan
    \/ Receive
    \/ DrainEnd
    \/ Assemble
    \/ EngineInfo

SpecMain == Init /\ [][NextMain]_vars

\* A response of the metrics endpoint has been produced.
MetricsServed == mainpc = "serving" /\ pc = "done"

\* ------------------------------------------------------------------ C24
\* C24: the output mode decides what the metrics endpoint exposes: in mode
\* "minimum" only the metrics of the configured prefix, and in mode "all"
\* those together with the go, process and promhttp metrics.
C24_OutputModeControlsExposition ==
    MetricsServed =>
        /\ cfg.OutputMode = "minimum" => Exposed = {cfg.Prefix}
        /\ cfg.OutputMode = "all" => Exposed = {cfg.Prefix, "go", "process", "promhttp"}


\* ------------------------------------------------------------------ C25
\* C25: the collector is registered and the server listens only after
\* NewClient and the startup ping have both succeeded; when either fails
\* the process ends fatally and never serves a request; and once serving,
\* no failure of a collection ends the process: every scrape, failed calls
\* or not, leaves the process serving.
C25_ServeOnlyAfterConnection ==
    /\ (mainpc \in {"register", "handlers", "listen", "serving"} \/ CollectorName \in registered)
          => (startup.client = "ok" /\ startup.ping = "ok")
    /\ (startup.client = "err" \/ startup.ping = "err")
          => (mainpc = "fatal" /\ pc = "idle" /\ health = NoHealth)
    /\ (pc # "idle" \/ health # NoHealth) => (mainpc = "serving" /\ ~panicked)

\* The process is serving after a scrape in which the listing and the
\* engine lookup failed.
C25_Witness == mainpc = "serving" /\ pc = "done" /\ listErr /\ engine = "err"

\* ------------------------------------------------------------------ C26
\* C26: a request to /health makes exactly one ping, under the handler's
\* own timeout, and is answered 200 "healthy" if and only if that ping
\* succeeded, and 503 "unhealthy" otherwise; a step of the handler sends
\* no metric and leaves the whole state of the scrape as it is, and no
\* step of a scrape changes the handler's request or answer.
C26_HealthOnePing ==
    [][ /\ health'.st \in {"pinging", "answered"} =>
              (health'.pings = 1 /\ health'.timeout = HealthTimeout)
        /\ health'.st = "answered" =>
              /\ health'.ping = "ok" <=> (health'.code = 200 /\ health'.body = "healthy")
              /\ health'.ping # "ok" <=> (health'.code = 503 /\ health'.body = "unhealthy")
        /\ health' # health => UNCHANGED scrapeVars
        /\ scrapeVars' # scrapeVars => health' = health ]_vars

\* /health answered 503 although the scrape of that time got everything,
\* and 200 although the scrape's listing failed.
C26_Witness ==
    \/ /\ health.st = "answered" /\ health.code = 503
       /\ pc = "done" /\ ~listErr /\ engine = "ok" /\ containers # <<>>
    \/ /\ health.st = "answered" /\ health.code = 200
       /\ pc = "done" /\ listErr /\ engine = "err"

\* ------------------------------------------------------------------ C27
\* C27: the timeout of the /health ping is shorter than the timeout of a
\* scrape, under the default configuration and under every configured
\* scrape timeout.
C27_HealthTimeoutShorter ==
    cfg # NoCfg => HealthDeadline(cfg) < ScrapeDeadline(cfg)

\* C27 as amended: the timeout of the /health ping is 2 seconds under
\* every configuration, and the timeout of a scrape is the configured one;
\* the two are equal under the default configuration, and the ping's
\* timeout is the shorter one exactly when the configured scrape timeout
\* is more than 2 seconds.
C27_HealthTimeoutFixed ==
    /\ cfg # NoCfg =>
          /\ HealthDeadline(cfg) = HealthTimeout
          /\ ScrapeDeadline(cfg) = cfg.Timeout
          /\ cfg.Timeout = DefaultTimeout => HealthDeadline(cfg) = ScrapeDeadline(cfg)
          /\ HealthDeadline(cfg) < ScrapeDeadline(cfg) <=> cfg.Timeout > HealthTimeout
    /\ health.st # "idle" => health.timeout = HealthTimeout

\* A /health request was made under a scrape timeout shorter than the
\* ping's.
C27_Witness == health.st = "answered" /\ cfg.Timeout < health.timeout

\* ------------------------------------------------ scheduling of a scrape
\* The steps that the Go scheduler and the returning runtime calls take,
\* against the runtime that the process is started against: every step of
\* a scrape but the start of the next scrape and the passing of the
\* deadline.
Progress ==
    \/ ContainerListOf(ServedIDs)
    \/ Inspect
    \/ Spawn
    \/ \E i \in 1..MaxContainers : StatsReturn(i)
    \/ \E i \in 1..MaxContainers : Post(i)
    \/ \E i \in 1..MaxContainers : TaskExit(i)
    \/ CloseChan
    \/ Receive
    \/ DrainEnd
    \/ Assemble
    \/ EngineInfo

NextServed ==
    \/ Begin
    \/ DeadlineElapses
    \/ Progress

\* A runnable goroutine is run in the end, and a runtime call returns in
\* the end.
FairSpec == Init /\ [][NextServed]_vars /\ WF_vars(Progress)

\* ------------------------------------------------------------------ C28
\* C28: every scrape terminates: when every runtime call returns in the
\* end, a scrape that has begun reaches its end, where Collect has sent
\* the scrape-duration sample as its last sample and returns.
C28_ScrapeTerminates ==
    (pc = "list") ~>
        (pc = "done" /\ ch # <<>> /\ ch[Len(ch)].desc = "scrape_duration_seconds")

\* A scrape has ended in which containers were listed and no fetch
\* goroutine posted a sample: none was running, or every fetch failed.
C28_Witness ==
    /\ pc = "done" /\ containers # <<>> /\ closed
    /\ \A i \in DOMAIN task : task[i].st \in {"none", "failed"}

\* ------------------------------------------------------------------ C29
\* C29: the containers of a listing, whose full identifiers are pairwise
\* distinct, have pairwise distinct ids; no two samples of a scrape have
\* the same metric and the same label values; and a sample that a fetch
\* goroutine has posted stays in statsChan or statsMap: no other
\* container's sample is stored over it.
C29_UniqueShortIDs ==
    /\ \A i, j \in DOMAIN containers :
          i # j => containers[i].ID # containers[j].ID
    /\ \A k, l \in DOMAIN ch :
          k # l => ~(ch[k].desc = ch[l].desc /\ ch[k].labels = ch[l].labels)
    /\ \A i \in DOMAIN task :
          task[i].st \in {"posted", "done"} => SamplesOf(i) = 1

\* ------------------------------------------------------------------ C30
\* C30: statsChan never holds more samples than its capacity
\* len(containers); a fetch goroutine that has its sample can send it at
\* once, whatever the orchestrator has read so far, because the channel
\* has room and is not closed; the channel is closed only when every
\* fetch goroutine has returned; no send panics.
C30_PostNeverBlocks ==
    /\ Len(statsChan) <= Len(containers)
    /\ Cardinality({ i \in DOMAIN task : task[i].st # "none" }) <= Len(containers)
    /\ \A i \in DOMAIN task :
          task[i].st = "got" => (~closed /\ ENABLED Post(i))
    /\ closed => AllTasksReturned
    /\ ~panicked

\* Every listed container's goroutine has sent its sample and the
\* orchestrator has read none: the channel is full to its capacity.
C30_Witness ==
    /\ pc \in {"spawn", "drain"} /\ Len(containers) = MaxContainers
    /\ Len(statsChan) = Len(containers) /\ statsMap = EmptyMap

\* ------------------------------------------------------------------ C31
\* The numbers of the runtime's stats for the container that the snapshot
\* cont is of.
OwnCounters(cont) == RuntimeCounters(IdOf(cont, enum))

\* C31: in whatever order the fetch goroutines return, each goroutine's
\* sample is the one of the container it was started for (its id, its name
\* and that container's numbers), and every resource metric emitted with
\* the id and name labels of a listed container has the value of the
\* sample that this container's own goroutine fetched.
C31_RightAttribution ==
    /\ \A i \in DOMAIN task :
          task[i].stats # <<>> =>
              /\ task[i].stats[1].ID = containers[i].ID
              /\ task[i].stats[1].Name = containers[i].Name
              /\ task[i].stats[1].Counters = OwnCounters(containers[i])
    /\ Assembled =>
          \A i \in DOMAIN containers : \A k \in DOMAIN ch :
              (/\ ch[k].desc \in ResourceDescs \cup NetworkDescs
               /\ SubSeq(ch[k].labels, 1, 2) = <<containers[i].ID, containers[i].Name>>)
              => /\ FetchReturnedSample(i)
                 /\ ch[k].value = task[i].stats[1].Counters

\* ------------------------------------------ two Collect calls at a time
\* Two Collect calls run on the one Collector at the same time.  The
\* variables of a scrape are the locals of the call that takes the next
\* step, peer holds the locals of the other call, and Switch passes the
\* turn.  Each call has its own call outcomes: arg holds those of the call
\* whose turn it is, peer.world those of the other.  What the two calls
\* share is the Collector, which no step writes, and the process.

\* The containers of the runtime that two overlapping calls scrape.
OverlapIDs == {MkID(1, 1)}

\* The call outcomes that an overlapping call may meet.
OverlapWorlds == { w \in Worlds : Canonical(w) /\ Range(w.enum) \subseteq OverlapIDs }

\* The locals of the call whose turn it is.
Locals ==
    [pc |-> pc, start |-> start, clk |-> clk, expired |-> expired, enum |-> enum,
     idx |-> idx, containers |-> containers, listErr |-> listErr, sp |-> sp,
     task |-> task, fetches |-> fetches, wg |-> wg, closer |-> closer,
     statsChan |-> statsChan, closed |-> closed, statsMap |-> statsMap, ch |-> ch,
     engine |-> engine, world |-> arg]

\* The call outcomes of both calls are fixed.
FixWorlds ==
    /\ fn = "none" /\ pc = "idle"
    /\ \E w, v \in OverlapWorlds :
          /\ arg' = w
          /\ peer' = [peer EXCEPT !.world = v]
    /\ fn' = "first"
    /\ UNCHANGED <<scrapeVars, out, mainVars>>

\* Two Collect calls that keep statsMap in the Collector.
SwitchSharingStatsMap ==
    /\ fn = "first" /\ ~panicked
    /\ peer' = Locals
    /\ pc' = peer.pc /\ start' = peer.start /\ clk' = peer.clk /\ expired' = peer.expired
    /\ enum' = peer.enum /\ idx' = peer.idx /\ containers' = peer.containers
    /\ listErr' = peer.listErr /\ sp' = peer.sp /\ task' = peer.task
    /\ fetches' = peer.fetches /\ wg' = peer.wg /\ closer' = peer.closer
    /\ statsChan' = peer.statsChan /\ closed' = peer.closed
    /\ ch' = peer.ch /\ engine' = peer.engine /\ arg' = peer.world
    /\ UNCHANGED <<statsMap, panicked, fn, out, mainVars>>

\* The turn passes to the other call: every local of Collect and of
\* collectContainerMetrics belongs to one call.
Switch ==
    /\ fn = "first" /\ ~panicked
    /\ peer' = Locals
    /\ pc' = peer.pc /\ start' = peer.start /\ clk' = peer.clk /\ expired' = peer.expired
    /\ enum' = peer.enum /\ idx' = peer.idx /\ containers' = peer.containers
    /\ listErr' = peer.listErr /\ sp' = peer.sp /\ task' = peer.task
    /\ fetches' = peer.fetches /\ wg' = peer.wg /\ closer' = peer.closer
    /\ statsChan' = peer.statsChan /\ closed' = peer.closed /\ statsMap' = peer.statsMap
    /\ ch' = peer.ch /\ engine' = peer.engine /\ arg' = peer.world
    /\ UNCHANGED <<panicked, fn, out, mainVars>>

NextOverlap ==
    \/ FixWorlds
    \/ BeginFirst
    \/ Switch
    \/ ContainerListW
    \/ InspectW
    \/ \E i \in 1..MaxContainers : StatsReturnW(i)
    \/ EngineInfoW
    \/ ScrapeStepW

SpecOverlap == Init /\ [][NextOverlap]_vars

\* The snapshots that ListContainers returns when it runs alone with the
\* call outcomes w, for the enumeration e.
RECURSIVE AloneContainers(_, _)
AloneContainers(w, e) ==
    IF e = <<>> THEN <<>>
    ELSE (IF w.inspectOK[Head(e)]
          THEN <<InspectContainer(InspectResponse(Head(e), w.profile[Head(e)]))>>
          ELSE <<>>) \o AloneContainers(w, Tail(e))

\* The statsMap of a Collect call that runs alone with the call outcomes w:
\* a sample for every running listed container whose fetch succeeds.
AloneStatsMap(w) ==
    LET got == { x \in Range(w.enum) : w.inspectOK[x] /\ w.profile[x].Running /\ w.fetchOK[x] }
    IN [k \in { Truncate(x) : x \in got } |->
           LET x == CHOOSE y \in got : Truncate(y) = k
           IN GetContainerStats(k, TrimPrefix(RuntimeName(x), "/"),
                  [Counters |-> RuntimeCounters(w.resolve[k]),
                   Networks |-> RuntimeInterfaces(w.resolve[k])])]

\* The samples of a Collect call that runs alone with the call outcomes w,
\* uptime values and scrape duration left out.
Alone(w) ==
    LET conts == AloneContainers(w, w.enum)
    IN Masked(<<BuildInfoMetric>>
              \o (IF w.listErr THEN <<>>
                  ELSE Flatten([i \in 1..Len(conts) |->
                                   ContainerMetrics(conts[i], AloneStatsMap(w), 0)]))
              \o FinalSamples(w.engineOK, 0))

\* ------------------------------------------------------------------ C32
\* C32: when two Collect calls overlap, each call that has ended has sent
\* exactly the samples that it would have sent alone with its own call
\* outcomes (uptime values and scrape duration apart): no sample of the
\* other call, and none lost to it; a call whose deadline has not elapsed
\* is not failed by the other's deadline; and no step panics.
C32_OverlapDoesNotInterfere ==
    /\ (fn = "first" /\ pc = "done") => SameSamples(Masked(ch), Alone(arg))
    /\ (fn = "first" /\ peer.pc = "done") => SameSamples(Masked(peer.ch), Alone(peer.world))
    /\ ~panicked

\* Both calls have ended, having run at the same time; the other call's
\* deadline elapsed and its fetch failed, while this call got a sample and
\* the engine information.
C32_Witness ==
    /\ fn = "first" /\ pc = "done" /\ peer.pc = "done"
    /\ peer.expired /\ ~expired
    /\ peer.enum = enum /\ enum # <<>>
    /\ DOMAIN peer.statsMap = {} /\ DOMAIN statsMap # {}
    /\ engine = "ok" /\ peer.engine = "err"

====
